---- MODULE Spec2Model ----
(***************************************************************************)
(* Model of src/main.py: the job-application builder.  One run of main()   *)
(* loads the configuration, renders and compiles four LaTeX documents,     *)
(* archives the PDFs and appends a row to the application history CSV.     *)
(*                                                                         *)
(* Text is modelled as a sequence of one-character strings, so that the    *)
(* sanitizer, the folder name and the CSV round trip of pandas operate on  *)
(* characters as the code does.                                            *)
(***************************************************************************)
EXTENDS Integers, Sequences, FiniteSets, TLC

\* ------------------------------------------------------------------ bounds
MaxLen == 3       \* longest input text given to the sanitizer
MaxRows == 3      \* longest history table explored by the history specification
MaxDay == 2       \* dates the history calls may fall on
MaxApply == 2     \* applications of the sanitizer to one input

\* ------------------------------------------------------------- characters
LowerSeq == << "a","b","c","d","e","f","g","h","i","j","k","l","m",
               "n","o","p","q","r","s","t","u","v","w","x","y","z" >>
UpperSeq == << "A","B","C","D","E","F","G","H","I","J","K","L","M",
               "N","O","P","Q","R","S","T","U","V","W","X","Y","Z" >>
DigitSeq == << "0","1","2","3","4","5","6","7","8","9" >>

Range(s) == { s[i] : i \in DOMAIN s }

LowerChars == Range(LowerSeq)
UpperChars == Range(UpperSeq)
DigitChars == Range(DigitSeq)

\* ---------------------------------------------------------- the sanitizer
\* The characters the pattern [^a-zA-Z0-9_-], with one more character let
\* through (a character class that forgot to exclude the dot).
SafeCharsDot == LowerChars \cup UpperChars \cup DigitChars \cup {"_", "-", "."}

\* The complement of the pattern [^a-zA-Z0-9_-] of re.sub (explicit ASCII
\* ranges: a non-ASCII letter is outside the class and is removed).
SafeChars == LowerChars \cup UpperChars \cup DigitChars \cup {"_", "-"}

\* str.replace(old, new) for one-character old and new.
StrReplace(text, old, new) ==
    [ i \in 1..Len(text) |-> IF text[i] = old THEN new ELSE text[i] ]

\* re.sub(r"[^a-zA-Z0-9_-]", "", text)
ReSubStrip(text) == SelectSeq(text, LAMBDA c : c \in SafeChars)

create_shell_friendly_name(text) ==
    ReSubStrip(StrReplace(StrReplace(text, " ", "_"), "/", "-"))

\* str.lower() on sanitized (ASCII) text.
LowerChar(c) ==
    IF c \in UpperChars
      THEN LowerSeq[CHOOSE i \in DOMAIN UpperSeq : UpperSeq[i] = c]
      ELSE c

StrLower(text) == [ i \in 1..Len(text) |-> LowerChar(text[i]) ]

\* ------------------------------------------------- the history CSV (pandas)
\* The history file is [exists, rows]: absent, or a header line followed by
\* rows of text cells.  date is the "%Y-%m-%d" string (never numeric, never an
\* NA marker), week is the decimal text of an integer (kept as the integer),
\* company and position are free text.
NoFile == [exists |-> FALSE, rows |-> << >>]

Table(rows) == [exists |-> TRUE, rows |-> rows]

DigitVal(c) == (CHOOSE i \in DOMAIN DigitSeq : DigitSeq[i] = c) - 1

IsDigits(text) == Len(text) > 0 /\ \A i \in DOMAIN text : text[i] \in DigitChars

RECURSIVE ParseNat(_)
ParseNat(text) ==
    IF text = << >> THEN 0
    ELSE ParseNat(SubSeq(text, 1, Len(text) - 1)) * 10 + DigitVal(text[Len(text)])

RECURSIVE FormatNat(_)
FormatNat(n) ==
    IF n < 10 THEN << DigitSeq[n + 1] >>
    ELSE FormatNat(n \div 10) \o << DigitSeq[(n % 10) + 1] >>

\* digits "." digits
IsFloatText(text) ==
    \E k \in DOMAIN text :
        /\ text[k] = "."
        /\ IsDigits(SubSeq(text, 1, k - 1))
        /\ IsDigits(SubSeq(text, k + 1, Len(text)))

DotPos(text) == CHOOSE k \in DOMAIN text : text[k] = "."

RECURSIVE StripZeros(_)
StripZeros(digits) ==
    IF digits # << >> /\ digits[Len(digits)] = "0"
      THEN StripZeros(SubSeq(digits, 1, Len(digits) - 1))
      ELSE digits

\* The default NA markers of pandas.read_csv (those over the model's alphabet).
NaTexts ==
    { << >>, <<"N","A">>, <<"N","/","A">>, <<"n","/","a">>, <<"N","a","N">>,
      <<"n","a","n">>, <<"n","u","l","l">>, <<"N","U","L","L">> }

\* What read_csv makes of one cell on its own.
CellKind(text) ==
    IF text \in NaTexts THEN "na"
    ELSE IF IsDigits(text) THEN "int"
    ELSE IF IsFloatText(text) THEN "float"
    ELSE "str"

\* read_csv infers one dtype per column: int64 when every cell is an integer,
\* float64 when every cell is a number or NA, object (str) otherwise.
ColDtype(texts) ==
    LET kinds == { CellKind(texts[i]) : i \in DOMAIN texts } IN
    IF kinds = {} THEN "object"
    ELSE IF kinds = {"int"} THEN "int64"
    ELSE IF kinds \subseteq {"int", "float", "na"} THEN "float64"
    ELSE "object"

ParseCell(text, dtype) ==
    IF CellKind(text) = "na" THEN [t |-> "nan"]
    ELSE IF dtype = "int64" THEN [t |-> "int", n |-> ParseNat(text)]
    ELSE IF dtype = "float64" THEN
        IF IsDigits(text)
          THEN [t |-> "float", ip |-> ParseNat(text), fp |-> << >>]
          ELSE [t |-> "float",
                ip |-> ParseNat(SubSeq(text, 1, DotPos(text) - 1)),
                fp |-> StripZeros(SubSeq(text, DotPos(text) + 1, Len(text)))]
    ELSE [t |-> "str", s |-> text]

\* A str value as a cell of the frame (the new row's company and position).
StrCell(text) == [t |-> "str", s |-> text]

\* to_csv writes an integer as its digits, a float with its fraction (12.0),
\* NaN as the empty field and a str as it is.
WriteCell(cell) ==
    IF cell.t = "nan" THEN << >>
    ELSE IF cell.t = "int" THEN FormatNat(cell.n)
    ELSE IF cell.t = "float" THEN
        FormatNat(cell.ip) \o <<".">> \o (IF cell.fp = << >> THEN <<"0">> ELSE cell.fp)
    ELSE cell.s

\* pd.read_csv(HISTORY_FILE): the rows with company and position typed by column.
read_csv(file) ==
    LET cdt == ColDtype([ i \in DOMAIN file |-> file[i].company ])
        pdt == ColDtype([ i \in DOMAIN file |-> file[i].position ])
    IN [ i \in DOMAIN file |->
           [ date |-> file[i].date, week |-> file[i].week,
             company |-> ParseCell(file[i].company, cdt),
             position |-> ParseCell(file[i].position, pdt) ] ]

\* df.to_csv(HISTORY_FILE, index=False)
to_csv(df) ==
    [ i \in DOMAIN df |->
        [ date |-> df[i].date, week |-> df[i].week,
          company |-> WriteCell(df[i].company),
          position |-> WriteCell(df[i].position) ] ]

\* series == value for a str value: an int, float or NaN element is not equal.
EqStr(cell, text) == cell.t = "str" /\ cell.s = text

\* ((df["date"] == date) & (df["company"] == company)
\*   & (df["position"] == jobtitle)).any()
RowExists(df, date, company, jobtitle) ==
    \E i \in DOMAIN df :
        /\ df[i].date = date
        /\ EqStr(df[i].company, company)
        /\ EqStr(df[i].position, jobtitle)

NewRow(date, week, company, jobtitle) ==
    [ date |-> date, week |-> week,
      company |-> StrCell(company), position |-> StrCell(jobtitle) ]

\* log_to_history that writes the table also when the file is absent.
log_to_history_creating(file, date, week, company, jobtitle) ==
    LET df == read_csv(file.rows) IN
    IF RowExists(df, date, company, jobtitle) THEN file
    ELSE Table(to_csv(Append(df, NewRow(date, week, company, jobtitle))))

\* log_to_history: the content of the history file after the call.
log_to_history(file, date, week, company, jobtitle) ==
    IF ~file.exists THEN file
    ELSE LET df == read_csv(file.rows) IN
         IF RowExists(df, date, company, jobtitle) THEN file
         ELSE Table(to_csv(Append(df, NewRow(date, week, company, jobtitle))))

\* ------------------------------------------------------ the program's state
VARIABLES
    pc,          \* where main() stands: idle (no run), prepare, render, compile,
                 \* archive, history
    idx,         \* index into docs_to_build of the document being built
    day,         \* index of today's date
    result,      \* running, or how the last run ended: none, aborted, raised:<where>, done
    config,      \* CONFIG_FILE (config.yaml)
    contentFile, \* CONTENT_FILE (application_text.txt): its text, or absent
    letterFile,  \* BASE_DIR / "application_letter_text.txt": its text, or absent
    data,        \* the data mapping of the run
    tex,         \* TEMPLATE_DIR/<doc>.tex: "none" (absent or empty), "fresh" (written
                 \* by the running process) or "stale" (left by an earlier run)
    pdf,         \* TEMPLATE_DIR/<doc>.pdf: whether the file is there
    archive,     \* APPLICATION_DIR: folder name -> its files
    history,     \* HISTORY_FILE (application_history.csv)
    log,         \* the logger's lines of the run's render and compile steps, in order
    call,        \* the arguments of the last log_to_history call
    sIn, sOut, sN \* sanitizer: the input, the current text, applications so far

vars == << pc, idx, day, result, config, contentFile, letterFile, data,
           tex, pdf, archive, history, log, call, sIn, sOut, sN >>

progVars == << pc, idx, day, result, config, contentFile, letterFile, data,
               tex, pdf, archive, log >>

sanVars == << sIn, sOut, sN >>

\* ---------------------------------------------------------------- constants
\* docs_to_build, by output name without extension, in the order of the list.
docs_to_build == << "attachments", "cv", "application_letter", "main" >>

Docs == Range(docs_to_build)

\* The artifacts archive_results moves unconditionally, in the order of its loop.
ArchivedPdfs == << "cv", "application_letter", "attachments" >>

\* datetime.now().strftime("%Y-%m-%d") and datetime.now().isocalendar()[1]
DateSeq == << "2024-03-01", "2024-03-04", "2024-03-11", "2024-03-18" >>
WeekSeq == << 9, 10, 11, 12 >>

DateStr(d) == DateSeq[d]
IsoWeek(d) == WeekSeq[d]

Absent == "absent"
Placeholder == "Missing application letter text."

\* dict.get(key, default) on an optional entry: << >> no key, <<v>> the value.
DictGet(entry, default) == IF entry = << >> THEN default ELSE entry[1]

DefaultCompanyArchive == <<"u","n","k","n","o","w","n","_","c","o","m","p","a","n","y">>
DefaultJobArchive == <<"j","o","b">>
DefaultHistory == <<"U","n","k","n","o","w","n">>

\* ------------------------------------------------------------ input domains
AcmeCorp == <<"A"," ","c">>
DevOps == <<"D","/","o">>

Cfg(kind, company, job) == [kind |-> kind, company |-> company, job_title |-> job]

\* config.yaml: absent, empty (parses to None), a truthy non-mapping (a YAML
\* list or scalar), or a mapping with the company and job_title keys.
Configs ==
    { Cfg("missing", << >>, << >>), Cfg("falsy", << >>, << >>),
      Cfg("nonmap", << >>, << >>),
      Cfg("mapping", <<AcmeCorp>>, <<DevOps>>) }

Texts == { "t1", "t2" }

NoData == [kind |-> "none", company |-> << >>, job_title |-> << >>, content |-> ""]

NoCall == [date |-> "", company |-> << >>, position |-> << >>]

\* --------------------------------------------------------------- load_config
\* load_config(): {} when the file is missing, else yaml.safe_load's value.
load_config(file) ==
    IF file.kind = "missing"
      THEN [kind |-> "falsy", company |-> << >>, job_title |-> << >>, content |-> ""]
      ELSE [kind |-> file.kind, company |-> file.company,
            job_title |-> file.job_title, content |-> ""]

\* main() that goes on with whatever load_config returned.
NotDataNever(d) == FALSE

\* "if not data: return" of main().
NotData(d) == d.kind = "falsy"

LoadConfig ==
    /\ pc = "idle"
    /\ log' = << >>
    /\ data' = load_config(config)
    /\ IF NotData(data')
         THEN pc' = "idle" /\ result' = "aborted"
         ELSE pc' = "prepare" /\ result' = "running"
    /\ idx' = 0
    /\ UNCHANGED << day, config, contentFile, letterFile, tex, pdf, archive,
                    history, call, sanVars >>

\* main() lines 198-236: data.get on a non-mapping raises AttributeError; the
\* content file is read into data["content"], or the placeholder is used.
Prepare ==
    /\ pc = "prepare"
    /\ IF data.kind = "nonmap"
         THEN /\ pc' = "idle" /\ result' = "raised:prepare"
              /\ UNCHANGED << data, idx >>
         ELSE /\ data' = [data EXCEPT !.content =
                            IF contentFile # Absent THEN contentFile ELSE Placeholder]
              /\ pc' = "render" /\ idx' = 1
              /\ UNCHANGED result
    /\ UNCHANGED << day, config, contentFile, letterFile, tex, pdf, archive,
                    history, log, call, sanVars >>

\* ------------------------------------------------ render_document, compile_latex
\* The outcomes of render_document: "ok" writes the source; "lookup" is
\* env.get_template raising before the output is opened (the file is not
\* touched); "render" is template.render raising after open(..., "w") truncated
\* the output.  Every exception is caught and logged.
RenderOutcomes == { "ok", "lookup", "render" }

render_document(file, outcome) ==
    IF outcome = "ok" THEN "fresh"
    ELSE IF outcome = "render" THEN "none"
    ELSE file

\* The end of the process: what the run wrote is from now on left by an
\* earlier run.
AtExit(sources) ==
    [ d \in DOMAIN sources |-> IF sources[d] = "fresh" THEN "stale" ELSE sources[d] ]

\* A step of the pipeline as the log shows it: the step, the document, the
\* source file the step wrote (render) or read (compile), and whether the
\* step logged success.
Event(op, doc, src, ok) == [op |-> op, doc |-> doc, src |-> src, ok |-> ok]

Render ==
    /\ pc = "render"
    /\ \E outcome \in RenderOutcomes :
        /\ tex' = [tex EXCEPT ![docs_to_build[idx]] =
                      render_document(tex[docs_to_build[idx]], outcome)]
        /\ log' = Append(log, Event("render", docs_to_build[idx],
                                    IF outcome = "ok" THEN "fresh" ELSE "none",
                                    outcome = "ok"))
    /\ pc' = "compile"
    /\ UNCHANGED << idx, day, result, config, contentFile, letterFile, data,
                    pdf, archive, history, call, sanVars >>

\* The outcomes of subprocess.run(["xelatex", ...], check=True): exit code 0
\* (only a written, non-empty source compiles), CalledProcessError (non-zero
\* exit, as for an absent or empty source: caught and logged), or an OSError such as FileNotFoundError when the
\* xelatex executable cannot be started (not caught by compile_latex).
CompileOutcomes(src) ==
    (IF src # "none" THEN { "ok" } ELSE {}) \cup { "CalledProcessError", "OSError" }

\* The compiled artifact after compile_latex: written on success, left as it
\* was otherwise.
compile_latex(artifact, src, outcome) ==
    IF outcome = "ok" THEN TRUE ELSE artifact

Compile ==
    /\ pc = "compile"
    /\ LET doc == docs_to_build[idx] IN
       \E outcome \in CompileOutcomes(tex[doc]) :
        /\ log' = Append(log, Event("compile", doc, tex[doc], outcome = "ok"))
        /\ pdf' = [pdf EXCEPT ![doc] = compile_latex(pdf[doc], tex[doc], outcome)]
        /\ IF outcome = "OSError"
             THEN /\ pc' = "idle" /\ result' = "raised:compile" /\ idx' = idx
                  /\ tex' = AtExit(tex)
             ELSE /\ result' = result
                  /\ tex' = tex
                  /\ IF idx < Len(docs_to_build)
                       THEN pc' = "render" /\ idx' = idx + 1
                       ELSE pc' = "archive" /\ idx' = idx
    /\ UNCHANGED << day, config, contentFile, letterFile, data,
                    archive, history, call, sanVars >>

\* ------------------------------------------------------------ archive_results
\* A folder of APPLICATION_DIR: which of the three moved artifacts it holds,
\* the copy of config.yaml (<< >>: not there), the copy of the letter text, and
\* the file names of the renamed main PDFs.
EmptyFolder ==
    [ pdfs |-> [ d \in Range(ArchivedPdfs) |-> FALSE ], config |-> << >>,
      letter |-> Absent, finals |-> {} ]

ArchiveCompany(d) ==
    StrLower(create_shell_friendly_name(DictGet(d.company, DefaultCompanyArchive)))

ArchiveJob(d) ==
    StrLower(create_shell_friendly_name(DictGet(d.job_title, DefaultJobArchive)))

\* f"{data_str}_{company}_{job}"
FolderName(d, today) ==
    << DateStr(today) >> \o <<"_">> \o ArchiveCompany(d) \o <<"_">> \o ArchiveJob(d)

\* f"application_{company}_{job}.pdf"
FinalName(d) ==
    << "application_" >> \o ArchiveCompany(d) \o <<"_">> \o ArchiveJob(d) \o << ".pdf" >>

\* A loop that skips an artifact that is not there instead of raising.
FirstMissingSkipped(work) == Len(ArchivedPdfs) + 1

\* The position in the loop of the first artifact shutil.move does not find
\* (it raises there); Len + 1 when all three are moved.
FirstMissing(work) ==
    IF \E i \in DOMAIN ArchivedPdfs : ~work[ArchivedPdfs[i]]
      THEN CHOOSE i \in DOMAIN ArchivedPdfs :
             /\ ~work[ArchivedPdfs[i]]
             /\ \A j \in 1..(i - 1) : work[ArchivedPdfs[j]]
      ELSE Len(ArchivedPdfs) + 1

\* The source of a copy: it stays where it was.
SourceAfterCopy(artifact) == artifact

\* The source of shutil.move: gone from the working area.
SourceAfterMove(artifact) == FALSE

Moved(work) == { ArchivedPdfs[i] : i \in 1..(FirstMissing(work) - 1) }

ArchiveResults ==
    /\ pc = "archive"
    /\ LET name     == FolderName(data, day)
           before   == IF name \in DOMAIN archive THEN archive[name] ELSE EmptyFolder
           moved    == Moved(pdf)
           movesOk  == FirstMissing(pdf) = Len(ArchivedPdfs) + 1
           cfgOk    == movesOk /\ config.kind # "missing"
           letterOk == cfgOk /\ letterFile # Absent
           mainOk   == letterOk /\ pdf["main"]
           after    ==
               [ pdfs   |-> [ d \in Range(ArchivedPdfs) |->
                               IF d \in moved THEN TRUE ELSE before.pdfs[d] ],
                 config |-> IF cfgOk THEN << config >> ELSE before.config,
                 letter |-> IF letterOk THEN letterFile ELSE before.letter,
                 finals |-> IF mainOk THEN before.finals \cup { FinalName(data) }
                            ELSE before.finals ]
       IN
        /\ archive' = [ n \in DOMAIN archive \cup { name } |->
                          IF n = name THEN after ELSE archive[n] ]
        /\ pdf' = [ d \in Docs |->
                      IF d \in moved \/ (d = "main" /\ mainOk)
                        THEN SourceAfterMove(pdf[d]) ELSE pdf[d] ]
        /\ IF ~movesOk
             THEN pc' = "idle" /\ result' = "raised:move" /\ tex' = AtExit(tex)
           ELSE IF ~letterOk
             THEN pc' = "idle" /\ result' = "raised:copy" /\ tex' = AtExit(tex)
           ELSE pc' = "history" /\ result' = result /\ tex' = tex
    /\ UNCHANGED << idx, day, config, contentFile, letterFile, data,
                    history, log, call, sanVars >>

\* ------------------------------------------------------------- log_to_history
HistoryCompany(d) == DictGet(d.company, DefaultHistory)
HistoryJob(d) == DictGet(d.job_title, DefaultHistory)

LogToHistory ==
    /\ pc = "history"
    /\ history' = log_to_history(history, DateStr(day), IsoWeek(day),
                                 HistoryCompany(data), HistoryJob(data))
    /\ call' = [ date |-> DateStr(day), company |-> HistoryCompany(data),
                 position |-> HistoryJob(data) ]
    /\ pc' = "idle"
    /\ result' = "done"
    /\ tex' = AtExit(tex)
    /\ UNCHANGED << idx, day, config, contentFile, letterFile, data,
                    pdf, archive, log, sanVars >>

\* ------------------------------------------------------------ the environment
\* Between runs the user edits config.yaml.  The two text files are as the user
\* left them before the first run, and the runs fall on one day (the history
\* specification below varies the date).
EditConfig ==
    /\ pc = "idle"
    /\ \E c \in Configs : c # config /\ config' = c
    /\ UNCHANGED << pc, idx, day, result, contentFile, letterFile, data, tex,
                    pdf, archive, history, log, call, sanVars >>

\* ------------------------------------------------------- the program: Spec
\* A fresh checkout: nothing rendered, compiled or archived; the history table
\* is either absent or holds its header only.
Init ==
    /\ pc = "idle" /\ idx = 0 /\ day = 1 /\ result = "none"
    /\ config \in Configs
    /\ contentFile \in { Absent, "t1" }
    /\ letterFile \in Texts \cup { Absent }
    /\ data = NoData
    /\ tex = [ d \in Docs |-> "none" ]
    /\ pdf = [ d \in Docs |-> FALSE ]
    /\ archive = << >>
    /\ history \in { NoFile, Table(<< >>) }
    /\ log = << >>
    /\ call = NoCall
    /\ sIn = << >> /\ sOut = << >> /\ sN = 0

Next ==
    \/ LoadConfig
    \/ Prepare
    \/ Render
    \/ Compile
    \/ ArchiveResults
    \/ LogToHistory
    \/ EditConfig

Spec == Init /\ [][Next]_vars

\* ------------------------------------------- log_to_history alone: SpecHistory
\* Calls of log_to_history with any mix of dates, companies and positions, on a
\* history file that is absent or starts with its header only.  A data mapping
\* holds the company and the job title, or lacks the key.
HistCompanies == { << <<"A","c">> >>, << <<"1","2">> >>, << <<"N","A">> >>, << >> }
HistJobs == { << <<"D","e","v">> >>, << <<"7">> >>, << >> }

HistData(c, j) == [kind |-> "mapping", company |-> c, job_title |-> j, content |-> ""]

InitHistory ==
    /\ pc = "idle" /\ idx = 0 /\ day = 1 /\ result = "none"
    /\ config = Cfg("missing", << >>, << >>)
    /\ contentFile = Absent /\ letterFile = Absent
    /\ data = NoData
    /\ tex = [ d \in Docs |-> "none" ]
    /\ pdf = [ d \in Docs |-> FALSE ]
    /\ archive = << >>
    /\ history \in { NoFile, Table(<< >>) }
    /\ log = << >>
    /\ call = NoCall
    /\ sIn = << >> /\ sOut = << >> /\ sN = 0

HistoryCall ==
    /\ Len(history.rows) < MaxRows
    /\ \E d \in 1..MaxDay, c \in HistCompanies, j \in HistJobs :
        /\ history' = log_to_history(history, DateStr(d), IsoWeek(d),
                                     HistoryCompany(HistData(c, j)),
                                     HistoryJob(HistData(c, j)))
        /\ call' = [ date |-> DateStr(d),
                     company |-> HistoryCompany(HistData(c, j)),
                     position |-> HistoryJob(HistData(c, j)) ]
    /\ UNCHANGED << progVars, sanVars >>

SpecHistory == InitHistory /\ [][HistoryCall]_vars

\* --------------------------------- create_shell_friendly_name: SpecSanitizer
SanAlphabet == { "a", "Z", "7", "_", "-", " ", "/", ".", "é" }

RECURSIVE StringsUpTo(_)
StringsUpTo(n) ==
    IF n = 0 THEN { << >> }
    ELSE LET shorter == StringsUpTo(n - 1) IN
         shorter \cup { Append(t, c) : t \in shorter, c \in SanAlphabet }

InitSanitizer ==
    /\ pc = "idle" /\ idx = 0 /\ day = 1 /\ result = "none"
    /\ config = Cfg("missing", << >>, << >>)
    /\ contentFile = Absent /\ letterFile = Absent
    /\ data = NoData
    /\ tex = [ d \in Docs |-> "none" ]
    /\ pdf = [ d \in Docs |-> FALSE ]
    /\ archive = << >>
    /\ history = NoFile
    /\ log = << >>
    /\ call = NoCall
    /\ sIn \in StringsUpTo(MaxLen) /\ sOut = sIn /\ sN = 0

Sanitize ==
    /\ sN < MaxApply
    /\ sOut' = create_shell_friendly_name(sOut)
    /\ sN' = sN + 1
    /\ UNCHANGED << progVars, history, call, sIn >>

SpecSanitizer == InitSanitizer /\ [][Sanitize]_vars

\* =================================================================== claims
Triple(row) == << row.date, row.company, row.position >>

\* C1: starting from a table without duplicates, after any sequence of
\* log_to_history calls no two rows of the persisted table share the same
\* (date, company, position) triple.
C1_NoDuplicateTriples ==
    history.exists =>
        \A i, j \in DOMAIN history.rows :
            i # j => Triple(history.rows[i]) # Triple(history.rows[j])

\* C2: a log_to_history call on an existing table keeps the rows it found as an
\* unchanged prefix, and appends exactly the row (date, week, company, position)
\* if and only if no row with the same (date, company, position) existed;
\* otherwise the table is unchanged.
C2_AppendOnlyIffNew ==
    [][ history.exists =>
          LET old == history.rows
              new == history'.rows
              dup == \E i \in DOMAIN old :
                        Triple(old[i]) = << call'.date, call'.company, call'.position >>
          IN /\ history'.exists
             /\ Len(new) >= Len(old)
             /\ SubSeq(new, 1, Len(old)) = old
             /\ dup => new = old
             /\ ~dup => /\ Len(new) = Len(old) + 1
                        /\ Triple(new[Len(new)])
                             = << call'.date, call'.company, call'.position >>
      ]_<< history, call >>

\* C7: sanitizing twice yields what sanitizing once yields, the output holds
\* only characters of [A-Za-z0-9_-], and a space has become an underscore and
\* a slash a hyphen before the other characters were stripped.
Count(text, c) == Cardinality({ i \in DOMAIN text : text[i] = c })

C7_SanitizerIdempotentSafe ==
    sN >= 1 =>
        /\ sOut = create_shell_friendly_name(sIn)
        /\ \A i \in DOMAIN sOut :
              sOut[i] \in LowerChars \cup UpperChars \cup DigitChars \cup {"_", "-"}
        /\ Count(sOut, "_") = Count(sIn, "_") + Count(sIn, " ")
        /\ Count(sOut, "-") = Count(sIn, "-") + Count(sIn, "/")

\* C7 witness: an input with a space, a slash and a stripped character has
\* been sanitized twice.
C7_Witness ==
    /\ sN = 2
    /\ sIn = << " ", "/", "." >>
    /\ sOut = << "_", "-" >>

\* C3: with no history file, log_to_history only returns: the file is still
\* absent after the call (nothing is created or written), the call does not
\* raise (the run ends "done"), and no other step of a run creates the file.
C3_MissingHistoryStaysMissing ==
    [][ ~history.exists =>
          /\ history' = history
          /\ pc = "history" => (pc' = "idle" /\ result' = "done")
      ]_vars

\* C3 witness: log_to_history has run to its end in a run without a history file.
C3_Witness ==
    /\ ~history.exists
    /\ pc = "idle" /\ result = "done"
    /\ call # NoCall

Steps(events) == [ i \in DOMAIN events |-> << events[i].op, events[i].doc >> ]

ExpectedSteps ==
    << << "render", "attachments" >>, << "compile", "attachments" >>,
       << "render", "cv" >>, << "compile", "cv" >>,
       << "render", "application_letter" >>, << "compile", "application_letter" >>,
       << "render", "main" >>, << "compile", "main" >> >>

\* C4: a run that enters the pipeline attempts render then compile for all four
\* documents in the order attachments, cv, application_letter, main, whatever
\* fails for any one of them: once the run is past the pipeline, or has ended,
\* its log shows the eight steps.
C4_AllDocumentsAttempted ==
    /\ pc \in { "archive", "history" } => Steps(log) = ExpectedSteps
    /\ (pc = "idle" /\ log # << >>) => Steps(log) = ExpectedSteps

\* C5: when archive_results runs with one of cv.pdf, application_letter.pdf,
\* attachments.pdf missing, the move raises and ends the run: the artifacts
\* before the missing one (in the order of the loop) are in the archive folder
\* and gone from the working area, nothing else is moved, the config and letter
\* copies and the main-PDF rename are not made, and log_to_history is not
\* called, so the history table is unchanged.
C5_MissingArtifactEndsRun ==
    [][ (pc = "archive" /\ \E d \in Range(ArchivedPdfs) : ~pdf[d]) =>
          LET name   == FolderName(data, day)
              before == IF name \in DOMAIN archive THEN archive[name] ELSE EmptyFolder
              after  == archive'[name]
          IN /\ pc' = "idle" /\ result' = "raised:move"
             /\ history' = history /\ call' = call
             /\ name \in DOMAIN archive'
             /\ \A i \in DOMAIN ArchivedPdfs :
                   IF \A j \in 1..i : pdf[ArchivedPdfs[j]]
                     THEN /\ ~pdf'[ArchivedPdfs[i]]
                          /\ after.pdfs[ArchivedPdfs[i]]
                     ELSE /\ pdf'[ArchivedPdfs[i]] = pdf[ArchivedPdfs[i]]
                          /\ after.pdfs[ArchivedPdfs[i]] = before.pdfs[ArchivedPdfs[i]]
             /\ after.config = before.config
             /\ after.letter = before.letter
             /\ after.finals = before.finals
             /\ pdf'["main"] = pdf["main"]
      ]_vars

\* C5 witness: a run ended in the move of a missing artifact after cv.pdf had
\* been moved, with main.pdf left in the working area and no copy made.
C5_Witness ==
    /\ pc = "idle" /\ result = "raised:move"
    /\ ~pdf["cv"] /\ pdf["main"]
    /\ \E n \in DOMAIN archive :
          /\ archive[n].pdfs["cv"]
          /\ ~archive[n].pdfs["application_letter"]
          /\ archive[n].config = << >>
    /\ history = Table(<< >>)

\* C6: a run whose configuration file is missing or parses to a falsy value
\* ends right after load_config: nothing is rendered or compiled, no archive
\* folder is created or changed, no working-area file moves, and the history
\* table is unchanged.
C6_NoConfigAborts ==
    [][ (pc = "idle" /\ config' = config /\ config.kind \in { "missing", "falsy" }) =>
          /\ pc' = "idle" /\ result' = "aborted"
          /\ log' = << >>
          /\ tex' = tex /\ pdf' = pdf
          /\ archive' = archive
          /\ history' = history /\ call' = call
      ]_vars

\* C6 witness: a run aborted on its configuration after an earlier run had
\* archived and logged an application.
C6_Witness ==
    /\ pc = "idle" /\ result = "aborted"
    /\ config.kind \in { "missing", "falsy" }
    /\ archive # << >>
    /\ Len(history.rows) = 1

\* C8: whenever the compiler is invoked for a document, the source it compiles
\* was written by the same run's render step for that document.
C8_CompilesFreshSource ==
    \A i \in DOMAIN log : log[i].op = "compile" => log[i].src = "fresh"

\* C9: when the content file existed and was read and the three compiled
\* artifacts exist, the archiver's copy of the letter text succeeds and the
\* archived letter text equals the content field.
C9_ArchivedLetterIsContent ==
    [][ ( /\ pc = "archive"
          /\ contentFile # Absent
          /\ \A d \in Range(ArchivedPdfs) : pdf[d] ) =>
          /\ pc' = "history"
          /\ archive'[FolderName(data, day)].letter = data.content
      ]_vars

NoCompileSucceeded(events) ==
    \A i \in DOMAIN events : events[i].op = "compile" => ~events[i].ok

NoPdf(work) == \A d \in Docs : ~work[d]

\* C10: after archive_results completes, none of the four PDFs is left in the
\* working area while the configuration file is still in place; a PDF comes
\* into the working area only by a successful compilation; and archive_results
\* on a working area without the PDFs fails at the move step, before any copy
\* or main-PDF rename.  So an archive_results that follows a completed one with
\* no successful compilation in between fails at the move step.
C10_ArchiveEmptiesWorkingArea ==
    [][ /\ (pc = "archive" /\ pc' = "history") =>
              /\ NoPdf(pdf')
              /\ config' = config /\ config.kind # "missing"
        /\ (NoPdf(pdf) /\ ~(pc = "compile" /\ log'[Len(log')].ok)) => NoPdf(pdf')
        /\ (pc = "archive" /\ NoPdf(pdf)) =>
              LET name   == FolderName(data, day)
                  before == IF name \in DOMAIN archive THEN archive[name]
                            ELSE EmptyFolder
              IN /\ pc' = "idle" /\ result' = "raised:move"
                 /\ pdf' = pdf
                 /\ archive'[name] = before
      ]_vars

\* C10 witness: a second run, in which nothing compiled, ended in the move step
\* after the first run had archived an application.
C10_Witness ==
    /\ pc = "idle" /\ result = "raised:move"
    /\ Len(log) = 8 /\ NoCompileSucceeded(log)
    /\ Len(history.rows) = 1
    /\ \E n \in DOMAIN archive : archive[n].letter # Absent

====
